---- MODULE Spec2Model ----
(***************************************************************************)
(* Model of component/control/control_plane.go: the ControlPlane's         *)
(* construction (NewControlPlane), BindLink, ListenAndServe with its two   *)
(* accept loops and per-item handler tasks, and Close with the teardown    *)
(* list deferFuncs.                                                        *)
(*                                                                         *)
(* Spec          : BindLink, ListenAndServe and Close on a constructed     *)
(*                 ControlPlane whose listeners receive no traffic         *)
(* ServeSpec     : ListenAndServe under traffic, with Close                *)
(* FairServeSpec : ServeSpec with the fairness the Go scheduler gives to   *)
(*                 runnable goroutines                                     *)
(* SpecNew       : NewControlPlane, run repeatedly against the pinned maps *)
(* FairSpecNew   : SpecNew in which a running NewControlPlane takes its    *)
(*                 next step                                               *)
(* FairRaceSpec  : FairServeSpec in which ListenAndServe's setup goes on   *)
(* BindSpec      : BindLink on links with every short address list         *)
(* PktSpec       : the datagram loop with every datagram and every buffer  *)
(*                 the pool may hand out                                   *)
(***************************************************************************)
EXTENDS Integers, Sequences, FiniteSets, TLC

\* ------------------------------------------------------------------ bounds
MaxAddrs == 3
MaxBind == 1          \* calls of BindLink explored
MaxClose == 2         \* calls of Close explored
MaxServeClose == 1    \* calls of Close explored under traffic
MaxItems == 3         \* connections and datagrams received, together
MaxNew == 3           \* calls of NewControlPlane explored
OverMax == 2          \* outbound lists up to MaxOutbound + OverMax are declared

\* --------------------------------------------------------------- constants
Links == {"eth0"}
Hooks == {"qdisc", "ingress", "egress"}

VARIABLES
    \* ---- the ControlPlane and the pinned kernel maps
    pcNew,           \* position inside NewControlPlane ("done": constructed)
    newErr,          \* the error NewControlPlane returned, Nil when none
    paramEpoch,      \* ParamMap[EpochKey], pinned: it outlives the process
    pinnedBad,       \* pinned maps whose format the objects being loaded reject
    nNew,            \* calls of NewControlPlane begun so far
    outbounds,       \* the declared outbound groups, by name
    outboundName2Id, \* c.outboundName2Id
    Final,           \* c.Final
    matcher,         \* c.SimulatedLpmTries / c.SimulatedDomainSet
    epoch,           \* c.epoch
    epochs,          \* per construction so far: the epoch read and the one kept
    stepErr,         \* the step of this construction that returned an error
    nLoad,           \* load attempts of this construction, modulo LoadMod
    \* ---- teardown
    deferFuncs,      \* c.deferFuncs: the teardown list
    hooks,           \* kernel side: installed <<link, hook>> pairs
    bpfOpen,         \* the loaded kernel objects (c.bpf) are open
    bound,           \* links for which a BindLink call has succeeded
    nBind,           \* calls of BindLink made so far
    ipnets,          \* kernel side: the address list of each link
    ifindexIpMap,    \* IfindexIpMap: per link, <<record>> once one is written
    lastBind,        \* the link and the failing step of the last BindLink call
    pcClose,         \* position of the caller inside Close
    closeI,          \* Close's loop index i (1-based)
    closeErr,        \* Close's named result err while the loop runs
    closeRet,        \* the error the last Close returned
    closeSnap,       \* deferFuncs as it was when the running Close began
    closeBound,      \* bound as it was when the running Close began
    invoked,         \* the teardown calls the running/last Close has made
    nClose,          \* calls of Close completed so far
    \* ---- ListenAndServe
    lasPc,           \* position of the ListenAndServe goroutine
    lasRet,          \* what ListenAndServe returned
    listener,        \* the TCP listener
    lConn,           \* the UDP listener
    paramPort,       \* ParamMap[BigEndianTproxyPortKey]
    ctxDone,         \* the shared context is cancelled
    tcpLoop,         \* position of the stream accept loop
    udpLoop,         \* position of the datagram read loop
    tcpErr,          \* the error that ended the stream loop
    udpErr,          \* the error that ended the datagram loop
    connTasks,       \* handleConn goroutines, in accept order
    pktTasks,        \* handlePkt goroutines, in dispatch order
    bufs,            \* the buffers the pool has handed out, with their bytes
    log              \* number of lines written per log statement

newVars == <<pcNew, newErr, paramEpoch, pinnedBad, nNew, outbounds,
             outboundName2Id, Final, matcher, epoch, epochs, stepErr, nLoad>>

closeVars == <<pcClose, closeI, closeErr, closeRet, closeSnap, closeBound,
              invoked, nClose>>

serveVars == <<lasPc, lasRet, listener, lConn, paramPort, tcpLoop, udpLoop,
               tcpErr, udpErr, connTasks, pktTasks, bufs, log>>

linkVars == <<ipnets, ifindexIpMap, lastBind>>

vars == <<newVars, deferFuncs, hooks, bpfOpen, bound, nBind, linkVars, closeVars,
          serveVars, ctxDone>>

Range(s) == {s[k] : k \in 1..Len(s)}

\* ------------------------------------------------------------------ errors
\* An error is the sequence of the parts of its message; nil is Nil.
Nil == <<>>
Sep == 0                                   \* the "; " of the format string
ErrOf(i) == <<i>>                          \* the error deferFuncs[i] returns

\* fmt.Errorf("%w; %v", err, e)
Errorf(err, e) == err \o <<Sep>> \o e

\* ---------------------------------------------------------- teardown funcs
NoLink == "-"
BpfCloseFunc == [fn |-> "bpf.Close", link |-> NoLink, hook |-> "-"]
QdiscDelFunc(l) == [fn |-> "QdiscDel", link |-> l, hook |-> "qdisc"]
IngressDelFunc(l) == [fn |-> "FilterDel", link |-> l, hook |-> "ingress"]
\* the closure registered after the egress filter is attached deletes `filter`,
\* the ingress filter, not `filterEgress`
EgressDelFunc(l) == [fn |-> "FilterDel", link |-> l, hook |-> "ingress"]
CancelFunc == [fn |-> "cancel", link |-> NoLink, hook |-> "-"]

LinkHooks(l) == {<<l, h>> : h \in Hooks}

\* ---------------------------------------------------------------- BindLink
BindSteps == <<"LinkByName", "AddrList", "NoIp", "IfindexIpMap", "QdiscAdd",
               "FilterAddIngress", "FilterAddEgress">>
StepNo(s) == CHOOSE k \in 1..Len(BindSteps) : BindSteps[k] = s
\* the step succeeded in a call that fails at failAt ("none": no step fails)
Passed(s, failAt) == failAt = "none" \/ StepNo(s) < StepNo(failAt)

\* An address of a link: the slice netlink hands over is 4 bytes long
\* ("ip4"), 16 bytes long ("ip6") or neither ("bad"); ll: it is link-local
\* unicast or link-local multicast.
AddrIds == {1, 2}
Addrs ==
    [kind : {"ip4", "ip6"}, ll : BOOLEAN, id : AddrIds]
    \cup {[kind |-> "bad", ll |-> FALSE, id |-> 1]}
RECURSIVE ListsUpTo(_)
ListsUpTo(n) ==
    IF n = 0 THEN {<<>>}
    ELSE LET S == ListsUpTo(n - 1)
         IN  S \cup {Append(l, a) : l \in S, a \in Addrs}
AddrLists == ListsUpTo(MaxAddrs)

\* netip.AddrFromSlice(ipnet.IP) and the predicates on its result
AddrFromSliceOk(a) == a.kind # "bad"
Is4(a) == a.kind = "ip4"
Is6(a) == a.kind = "ip6"
IsLinkLocal(a) == a.ll
\* ip.As16(): an IPv4 address becomes the IPv4-mapped IPv6 address
As16(a) == <<IF Is4(a) THEN "::ffff:" ELSE "", a.id>>
ZeroIp == <<"", 0>>
\* var linkIp bpfIfIp
NoLinkIp == [HasIp4 |-> FALSE, Ip4 |-> ZeroIp, HasIp6 |-> FALSE, Ip6 |-> ZeroIp]

\* slip: an address of a family that is already stored replaces it
SlotTakenNever(linkIp, a) == FALSE
\* (ip.Is6() && linkIp.HasIp6) || (ip.Is4() && linkIp.HasIp4)
SlotTaken(linkIp, a) ==
    (Is6(a) /\ linkIp.HasIp6) \/ (Is4(a) /\ linkIp.HasIp4)

\* one iteration of `for _, ipnet := range ipnets`; the stored value is the
\* 16 bytes of As16, which Ipv6ByteSliceToUint32Array repacks as four uint32
ScanAddr(linkIp, a) ==
    IF ~AddrFromSliceOk(a) \/ IsLinkLocal(a) \/ SlotTaken(linkIp, a)
    THEN linkIp
    ELSE IF Is4(a)
         THEN [linkIp EXCEPT !.HasIp4 = TRUE, !.Ip4 = As16(a)]
         ELSE [linkIp EXCEPT !.HasIp6 = TRUE, !.Ip6 = As16(a)]
\* the loop from element i on; it breaks once both addresses are stored
RECURSIVE ScanFrom(_, _, _)
ScanFrom(list, i, linkIp) ==
    IF i > Len(list) \/ (linkIp.HasIp4 /\ linkIp.HasIp6)
    THEN linkIp
    ELSE ScanFrom(list, i + 1, ScanAddr(linkIp, list[i]))

\* slip: the release of the qdisc is registered before QdiscAdd's result is
\* looked at
RegisteredEarly(ifname, failAt) ==
    (IF Passed("IfindexIpMap", failAt) THEN <<QdiscDelFunc(ifname)>> ELSE <<>>)
    \o (IF Passed("FilterAddIngress", failAt)
        THEN <<IngressDelFunc(ifname)>> ELSE <<>>)
    \o (IF Passed("FilterAddEgress", failAt)
        THEN <<EgressDelFunc(ifname)>> ELSE <<>>)
\* the closures a call appends to c.deferFuncs: each append follows the
\* `if err != nil { return }` of its acquisition
Registered(ifname, failAt) ==
    (IF Passed("QdiscAdd", failAt) THEN <<QdiscDelFunc(ifname)>> ELSE <<>>)
    \o (IF Passed("FilterAddIngress", failAt)
        THEN <<IngressDelFunc(ifname)>> ELSE <<>>)
    \o (IF Passed("FilterAddEgress", failAt)
        THEN <<EgressDelFunc(ifname)>> ELSE <<>>)

\* BindLink(ifname).  failAt is the call that returns an error; delOk is the
\* outcome of the QdiscDel made when QdiscAdd reports that the qdisc exists.
BindLink(ifname, failAt, delOk) ==
    LET exists == <<ifname, "qdisc">> \in hooks
        afterDel == IF exists /\ delOk THEN hooks \ LinkHooks(ifname) ELSE hooks
        h1 == IF Passed("IfindexIpMap", failAt) /\ exists THEN afterDel ELSE hooks
        qdiscOk == Passed("QdiscAdd", failAt)
        ingressOk == Passed("FilterAddIngress", failAt)
        egressOk == Passed("FilterAddEgress", failAt)
        h2 == h1 \cup (IF qdiscOk THEN {<<ifname, "qdisc">>} ELSE {})
                 \cup (IF ingressOk THEN {<<ifname, "ingress">>} ELSE {})
                 \cup (IF egressOk THEN {<<ifname, "egress">>} ELSE {})
    IN  /\ pcNew = "done"
        /\ pcClose # "loop"
        /\ nBind < MaxBind
        \* an update of a map that is closed fails
        /\ Passed("IfindexIpMap", failAt) => bpfOpen
        \* len(ipnets) == 0
        /\ Passed("AddrList", failAt) =>
              (failAt = "NoIp" <=> Len(ipnets[ifname]) = 0)
        \* a qdisc that is still there makes the second QdiscAdd fail as well
        /\ (exists /\ ~delOk /\ Passed("IfindexIpMap", failAt)) => failAt = "QdiscAdd"
        /\ (~exists \/ ~Passed("IfindexIpMap", failAt)) => delOk
        /\ nBind' = nBind + 1
        /\ ifindexIpMap' =
              IF Passed("IfindexIpMap", failAt)
              THEN [ifindexIpMap EXCEPT
                      ![ifname] = <<ScanFrom(ipnets[ifname], 1, NoLinkIp)>>]
              ELSE ifindexIpMap
        /\ hooks' = h2
        /\ deferFuncs' = deferFuncs \o Registered(ifname, failAt)
        /\ bound' = IF failAt = "none" THEN bound \cup {ifname} ELSE bound
        /\ lastBind' = [link |-> ifname, failAt |-> failAt]
        /\ UNCHANGED <<newVars, bpfOpen, ipnets, closeVars, serveVars, ctxDone>>

\* ------------------------------------------------------------------- Close
\* the kernel can honour a delete only of what is installed
CanSucceed(f) ==
    CASE f.fn = "QdiscDel" -> <<f.link, "qdisc">> \in hooks
      [] f.fn = "FilterDel" -> <<f.link, f.hook>> \in hooks
      [] OTHER -> TRUE
\* cancel() cannot fail: its closure returns nil
CanFail(f) == f.fn # "cancel"

HooksAfter(f, ok) ==
    CASE ok /\ f.fn = "QdiscDel" -> hooks \ LinkHooks(f.link)
      [] ok /\ f.fn = "FilterDel" -> hooks \ {<<f.link, f.hook>>}
      [] OTHER -> hooks

\* slip: the loop starts one below the last index
CloseFirstSkipsLast(funcs) == Len(funcs) - 1
\* for i := len(c.deferFuncs) - 1
CloseFirst(funcs) == Len(funcs)
\* slip: the loop ends at the first failure
CloseNextIStopOnError(i, e) == IF e # Nil THEN 0 ELSE i - 1
\* i-- after deferFuncs[i] returned e
CloseNextI(i, e) == i - 1
\* slip: a later failure replaces the earlier ones
CombineKeepsLast(err, e) == IF e # Nil THEN e ELSE err
\* "Combine errors."
Combine(err, e) ==
    IF e # Nil
    THEN (IF err # Nil THEN Errorf(err, e) ELSE e)
    ELSE err

CloseBegin ==
    /\ pcNew = "done"
    /\ pcClose \in {"idle", "done"}
    /\ nClose < MaxClose
    /\ pcClose' = "loop"
    /\ closeI' = CloseFirst(deferFuncs)
    /\ closeErr' = Nil
    /\ closeSnap' = deferFuncs
    /\ closeBound' = bound
    /\ invoked' = <<>>
    /\ UNCHANGED <<newVars, deferFuncs, hooks, bpfOpen, bound, nBind, linkVars, closeRet, nClose,
                   serveVars, ctxDone>>

CloseInvoke(ok) ==
    /\ pcClose = "loop"
    /\ closeI >= 1
    /\ LET f == deferFuncs[closeI]
           e == IF ok THEN Nil ELSE ErrOf(closeI)
       IN  /\ ok => CanSucceed(f)
           /\ ~ok => CanFail(f)
           /\ hooks' = HooksAfter(f, ok)
           /\ bpfOpen' = (bpfOpen /\ ~(ok /\ f.fn = "bpf.Close"))
           /\ ctxDone' = (ctxDone \/ f.fn = "cancel")
           /\ closeErr' = Combine(closeErr, e)
           /\ invoked' = Append(invoked, [i |-> closeI, f |-> f, e |-> e])
           /\ closeI' = CloseNextI(closeI, e)
    /\ UNCHANGED <<newVars, deferFuncs, bound, nBind, linkVars, pcClose, closeRet,
                   closeSnap, closeBound, nClose, serveVars>>

\* slip: Close drops the matcher data with the kernel objects
MatcherAfterCloseDropped(m) == "none"
\* Close assigns to no field of c
MatcherAfterClose(m) == m

\* slip: the list is emptied once its actions have run
FuncsAfterCloseCleared(funcs) == <<>>
\* Close does not assign to c.deferFuncs
FuncsAfterClose(funcs) == funcs

CloseReturn ==
    /\ pcClose = "loop"
    /\ closeI < 1
    /\ pcClose' = "done"
    /\ closeRet' = closeErr
    /\ nClose' = nClose + 1
    /\ matcher' = MatcherAfterClose(matcher)
    /\ deferFuncs' = FuncsAfterClose(deferFuncs)
    /\ UNCHANGED <<pcNew, newErr, paramEpoch, pinnedBad, nNew, outbounds,
                   outboundName2Id, Final, epoch, epochs, stepErr, nLoad>>
    /\ UNCHANGED <<hooks, bpfOpen, bound, nBind, linkVars, closeI, closeErr,
                   closeSnap, closeBound, invoked, serveVars, ctxDone>>

\* ---------------------------------------------------------- ListenAndServe
Ports == {12345}
ErrClosedText == "use of closed network connection"
ErrOtherText == "too many open files"
\* slip: the message is compared with another text
IsClosedErrOtherText(e) == e = "closed"
\* strings.Contains(err.Error(), "use of closed network connection")
IsClosedErr(e) == e = ErrClosedText

Inc(l, k) == [l EXCEPT ![k] = @ + 1]

\* the connections and datagrams the two loops have received so far
Items == Len(connTasks) + Len(pktTasks) + log.noAddrPort

\* net.Listen("tcp", ...)
LasListenTCP(ok) ==
    /\ pcNew = "done"
    /\ lasPc = "idle"
    /\ IF ok
       THEN /\ listener' = "open"
            /\ lasPc' = "listenUDP"
            /\ UNCHANGED lasRet
       ELSE /\ lasPc' = "returned"
            /\ lasRet' = <<"listenTCP">>
            /\ UNCHANGED listener
    /\ UNCHANGED <<newVars, deferFuncs, hooks, bpfOpen, bound, nBind, linkVars, closeVars, lConn,
                   paramPort, tcpLoop, udpLoop, tcpErr, udpErr, connTasks,
                   pktTasks, bufs, log, ctxDone>>

\* slip: the stream listener stays open when a later setup step fails
ListenerAfterSetupErrorLeak == "open"
\* defer listener.Close(), run by every return that follows net.Listen
ListenerAfterSetupError == "closed"

\* net.ListenUDP("udp", ...); on failure the deferred listener.Close() runs
LasListenUDP(ok) ==
    /\ lasPc = "listenUDP"
    /\ IF ok
       THEN /\ lConn' = "open"
            /\ lasPc' = "update"
            /\ UNCHANGED <<lasRet, listener>>
       ELSE /\ lasPc' = "returned"
            /\ lasRet' = <<"listenUDP">>
            /\ listener' = ListenerAfterSetupError
            /\ UNCHANGED lConn
    /\ UNCHANGED <<newVars, deferFuncs, hooks, bpfOpen, bound, nBind, linkVars, closeVars,
                   paramPort, tcpLoop, udpLoop, tcpErr, udpErr, connTasks,
                   pktTasks, bufs, log, ctxDone>>

\* c.bpf.ParamMap.Update(consts.BigEndianTproxyPortKey, uint32(swap16(port)))
LasUpdatePort(port, ok) ==
    /\ lasPc = "update"
    \* an update of a map that is closed fails
    /\ ok => bpfOpen
    /\ IF ok
       THEN /\ paramPort' = <<"swap16", port>>
            /\ lasPc' = "register"
            /\ UNCHANGED <<lasRet, listener, lConn>>
       ELSE /\ lasPc' = "returned"
            /\ lasRet' = <<"ParamMap.Update">>
            /\ listener' = ListenerAfterSetupError
            /\ lConn' = "closed"
            /\ UNCHANGED paramPort
    /\ UNCHANGED <<newVars, deferFuncs, hooks, bpfOpen, bound, nBind, linkVars, closeVars,
                   tcpLoop, udpLoop, tcpErr, udpErr, connTasks, pktTasks, bufs, log,
                   ctxDone>>

\* context.WithCancel, the append of the cancel closure, and the two `go`
\* statements: none of them blocks
LasServe ==
    /\ lasPc = "register"
    /\ deferFuncs' = Append(deferFuncs, CancelFunc)
    /\ tcpLoop' = "accept"
    /\ udpLoop' = "read"
    /\ lasPc' = "wait"
    /\ UNCHANGED <<newVars, hooks, bpfOpen, bound, nBind, linkVars, closeVars, lasRet, listener,
                   lConn, paramPort, tcpErr, udpErr, connTasks, pktTasks, bufs, log,
                   ctxDone>>

\* slip: the listeners are not closed on return
LasReturnLeak ==
    /\ lasPc = "wait"
    /\ ctxDone
    /\ lasPc' = "returned"
    /\ lasRet' = Nil
    /\ UNCHANGED <<newVars, deferFuncs, hooks, bpfOpen, bound, nBind, linkVars, closeVars,
                   listener, lConn, paramPort, tcpLoop, udpLoop, tcpErr, udpErr,
                   connTasks, pktTasks, bufs, log, ctxDone>>

\* <-ctx.Done(); return nil, running the deferred lConn.Close() and
\* listener.Close()
LasReturn ==
    /\ lasPc = "wait"
    /\ ctxDone
    /\ lasPc' = "returned"
    /\ lasRet' = Nil
    /\ lConn' = "closed"
    /\ listener' = "closed"
    /\ UNCHANGED <<newVars, deferFuncs, hooks, bpfOpen, bound, nBind, linkVars, closeVars,
                   paramPort, tcpLoop, udpLoop, tcpErr, udpErr, connTasks,
                   pktTasks, bufs, log, ctxDone>>

\* ------------------------------------------------------- stream accept loop
\* slip: the handler is called in the loop, which then waits for it
TcpAfterDispatchInline == "handling"
\* where the loop goes after `go func() { c.handleConn(lconn) }()`
TcpAfterDispatch == "accept"

\* listener.Accept() returned a connection: a handler goroutine is started
TcpAccept ==
    /\ tcpLoop = "accept"
    /\ listener = "open"
    /\ Items < MaxItems
    /\ connTasks' = Append(connTasks, "running")
    /\ tcpLoop' = TcpAfterDispatch
    /\ UNCHANGED <<newVars, deferFuncs, hooks, bpfOpen, bound, nBind, linkVars, closeVars, lasPc,
                   lasRet, listener, lConn, paramPort, udpLoop, tcpErr, udpErr,
                   pktTasks, bufs, log, ctxDone>>

\* slip: the loop exits without cancelling
LoopExitCtxKeep(done) == done
\* what a loop's exit does to the context: `defer cancel()`
LoopExitCtx(done) == TRUE

\* listener.Accept() returned an error: the closed-listener error once the
\* listener is closed, a genuine one at any time before
TcpAcceptErr(text) ==
    /\ tcpLoop = "accept"
    /\ text = ErrClosedText <=> listener = "closed"
    /\ log' = IF ~IsClosedErr(text) THEN Inc(log, "accept") ELSE log
    /\ tcpErr' = text
    /\ tcpLoop' = "stopped"
    /\ ctxDone' = LoopExitCtx(ctxDone)
    /\ UNCHANGED <<newVars, deferFuncs, hooks, bpfOpen, bound, nBind, linkVars, closeVars, lasPc,
                   lasRet, listener, lConn, paramPort, udpLoop, udpErr,
                   connTasks, pktTasks, bufs>>

\* c.handleConn returned e in its goroutine
ConnReturn(k, ok) ==
    /\ k \in 1..Len(connTasks)
    /\ connTasks[k] = "running"
    /\ connTasks' = [connTasks EXCEPT ![k] = "done"]
    /\ log' = IF ~ok THEN Inc(log, "handleConn") ELSE log
    /\ UNCHANGED <<newVars, deferFuncs, hooks, bpfOpen, bound, nBind, linkVars, closeVars, lasPc,
                   lasRet, listener, lConn, paramPort, tcpLoop, udpLoop, tcpErr,
                   udpErr, pktTasks, bufs, ctxDone>>

\* ------------------------------------------------------- datagram read loop
\* A datagram is its family field and its length n.
Families == {"v4", "v6", "bad"}
HdrLenV4 == 7
HdrLenV6 == 19
HdrLen(fam) == IF fam = "v4" THEN HdrLenV4 ELSE HdrLenV6
Datagrams == [fam : Families, n : {HdrLenV4 + 2, HdrLenV6 + 2}]
\* the short ones: one whose header parses and two whose header does not
ServeDatagrams == {d \in Datagrams : d.n = HdrLenV4 + 2}

\* ParseAddrHdr(buf[:n]): <<ok, dataOffset>>
ParseAddrHdr(d) ==
    IF d.fam = "bad" \/ d.n < HdrLen(d.fam)
    THEN <<FALSE, 0>>
    ELSE <<TRUE, HdrLen(d.fam)>>

\* slip: `break` in place of `continue`
UdpAfterParseErrBreak == "stopped"
\* where the loop goes after a header that does not parse: `continue`
UdpAfterParseErr == "read"

\* the n bytes ReadFromUDPAddrPort stored in buf for datagram d: byte i of a
\* datagram is told from every other byte of every datagram
Bytes(d) == [i \in 1..d.n |-> <<d.fam, d.n, i>>]

\* pool.Get(size) hands out a buffer of size bytes that nobody holds: one
\* that was put back, with what it held, or a new one
PoolAvail == {b \in 1..Len(bufs) : bufs[b].free} \cup {Len(bufs) + 1}
\* a pool that hands out the buffer put back longest ago
PoolFirst == CHOOSE b \in PoolAvail : \A c \in PoolAvail : b <= c
PoolGet(b, size) ==
    [i \in 1..size |-> IF b <= Len(bufs) /\ i <= Len(bufs[b].data)
                       THEN bufs[b].data[i] ELSE 0]
\* copy(dst, src)
Copy(dst, src) ==
    [i \in 1..Len(dst) |-> IF i <= Len(src) THEN src[i] ELSE dst[i]]
\* slip: the copy starts at the header
PayloadFromStart(bytes, dataOffset, n) == SubSeq(bytes, 1, n - dataOffset)
\* buf[dataOffset:n]
Payload(bytes, dataOffset, n) == SubSeq(bytes, dataOffset + 1, n)

\* lConn.ReadFromUDPAddrPort returned datagram d; pool.Get hands out buffer b
UdpRead(d, b) ==
    /\ udpLoop = "read"
    /\ lConn = "open"
    /\ Items < MaxItems
    /\ LET r == ParseAddrHdr(d)
       IN  IF r[1]
           THEN /\ b \in PoolAvail
                /\ LET newBuf == Copy(PoolGet(b, d.n - r[2]),
                                      Payload(Bytes(d), r[2], d.n))
                       held == [data |-> newBuf, free |-> FALSE]
                   IN  /\ bufs' = IF b <= Len(bufs)
                                  THEN [bufs EXCEPT ![b] = held]
                                  ELSE Append(bufs, held)
                       /\ pktTasks' = Append(pktTasks,
                              [dg |-> d, off |-> r[2], buf |-> b,
                               st |-> "running", put |-> 0])
                /\ UNCHANGED <<log, udpLoop>>
           ELSE /\ log' = Inc(log, "noAddrPort")
                /\ udpLoop' = UdpAfterParseErr
                /\ UNCHANGED <<pktTasks, bufs>>
    /\ UNCHANGED <<newVars, deferFuncs, hooks, bpfOpen, bound, nBind, linkVars, closeVars, lasPc,
                   lasRet, listener, lConn, paramPort, tcpLoop, tcpErr, udpErr,
                   connTasks, ctxDone>>

\* lConn.ReadFromUDPAddrPort returned an error
UdpReadErr(text) ==
    /\ udpLoop = "read"
    /\ text = ErrClosedText <=> lConn = "closed"
    /\ log' = IF ~IsClosedErr(text) THEN Inc(log, "read") ELSE log
    /\ udpErr' = text
    /\ udpLoop' = "stopped"
    /\ ctxDone' = LoopExitCtx(ctxDone)
    /\ UNCHANGED <<newVars, deferFuncs, hooks, bpfOpen, bound, nBind, linkVars, closeVars, lasPc,
                   lasRet, listener, lConn, paramPort, tcpLoop, tcpErr,
                   connTasks, pktTasks, bufs>>

\* c.handlePkt returned in its goroutine
PktReturn(k, ok) ==
    /\ k \in 1..Len(pktTasks)
    /\ pktTasks[k].st = "running"
    /\ pktTasks' = [pktTasks EXCEPT ![k].st = "returned"]
    /\ log' = IF ~ok THEN Inc(log, "handlePkt") ELSE log
    /\ UNCHANGED <<newVars, deferFuncs, hooks, bpfOpen, bound, nBind, linkVars, closeVars, lasPc,
                   lasRet, listener, lConn, paramPort, tcpLoop, udpLoop, tcpErr,
                   udpErr, connTasks, bufs, ctxDone>>

\* pool.Put(newBuf), the last statement of the goroutine
PktPut(k) ==
    /\ k \in 1..Len(pktTasks)
    /\ pktTasks[k].st = "returned"
    /\ pktTasks' = [pktTasks EXCEPT ![k].st = "done", ![k].put = @ + 1]
    /\ bufs' = [bufs EXCEPT ![pktTasks[k].buf].free = TRUE]
    /\ UNCHANGED <<newVars, deferFuncs, hooks, bpfOpen, bound, nBind, linkVars, closeVars, lasPc,
                   lasRet, listener, lConn, paramPort, tcpLoop, udpLoop, tcpErr,
                   udpErr, connTasks, log, ctxDone>>

\* the goroutine's body from handlePkt's return to its end, as one step
PktDone(k, ok) ==
    /\ k \in 1..Len(pktTasks)
    /\ pktTasks[k].st = "running"
    /\ pktTasks' = [pktTasks EXCEPT ![k].st = "done", ![k].put = @ + 1]
    /\ bufs' = [bufs EXCEPT ![pktTasks[k].buf].free = TRUE]
    /\ log' = IF ~ok THEN Inc(log, "handlePkt") ELSE log
    /\ UNCHANGED <<newVars, deferFuncs, hooks, bpfOpen, bound, nBind, linkVars,
                   closeVars, lasPc, lasRet, listener, lConn, paramPort,
                   tcpLoop, udpLoop, tcpErr, udpErr, connTasks, ctxDone>>

\* ---------------------------------------------------------- NewControlPlane
\* A uint32 is <<high half, low half>>, each half in 0..Half-1.
Half == 65536
U32Zero == <<0, 0>>
U32Max == <<Half - 1, Half - 1>>
\* epoch++ on a uint32
U32Inc(v) ==
    IF v[2] = Half - 1 THEN <<(v[1] + 1) % Half, 0>> ELSE <<v[1], v[2] + 1>>
U32Less(v, w) == v[1] < w[1] \/ (v[1] = w[1] /\ v[2] < w[2])

PinnedMaps == {"ParamMap", "IfindexIpMap"}
\* load attempts are counted modulo LoadMod
LoadMod == 2

\* rlimit.RemoveMemlock()
NewRlimit(ok) ==
    /\ pcNew = "start"
    /\ IF ok
       THEN pcNew' = "load" /\ UNCHANGED <<newErr, stepErr>>
       ELSE /\ pcNew' = "failed"
            /\ newErr' = <<"rlimit.RemoveMemlock">>
            /\ stepErr' = "rlimit.RemoveMemlock"
    /\ UNCHANGED <<paramEpoch, pinnedBad, nNew, outbounds, outboundName2Id,
                   Final, matcher, epoch, epochs, nLoad, deferFuncs, hooks, bpfOpen,
                   bound, nBind, linkVars, closeVars, serveVars, ctxDone>>

\* retry_load: loadBpfObjects succeeds when no pinned map is incompatible
\* (unless it fails for another reason)
NewLoad(ok) ==
    /\ pcNew = "load"
    /\ pinnedBad = {}
    /\ IF ok
       THEN pcNew' = "params" /\ UNCHANGED <<newErr, stepErr>>
       ELSE /\ pcNew' = "failed"
            /\ newErr' = <<"loading objects">>
            /\ stepErr' = "loadBpfObjects"
    /\ bpfOpen' = ok
    /\ nLoad' = (nLoad + 1) % LoadMod
    /\ UNCHANGED <<paramEpoch, pinnedBad, nNew, outbounds, outboundName2Id,
                   Final, matcher, epoch, epochs, deferFuncs, hooks, bound,
                   nBind, linkVars, closeVars, serveVars, ctxDone>>

\* goto retry_load
AfterIncompatible == "load"

\* retry_load: loadBpfObjects reports ebpf.ErrMapIncompatible for pinned map m.
\* named: the message holds "use pinned map <name>:"; removed: os.Remove, whose
\* result is dropped, unlinked the pin.  A map loaded anew holds zeroes.
NewLoadIncompatible(m, named, removed) ==
    /\ pcNew = "load"
    /\ m \in pinnedBad
    /\ IF ~named
       THEN /\ pcNew' = "failed"
            /\ newErr' = <<"loading objects: bad format">>
            /\ stepErr' = "loadBpfObjects"
            /\ UNCHANGED <<pinnedBad, paramEpoch>>
       ELSE /\ pinnedBad' = IF removed THEN pinnedBad \ {m} ELSE pinnedBad
            /\ paramEpoch' = IF removed /\ m = "ParamMap" THEN U32Zero
                             ELSE paramEpoch
            /\ pcNew' = AfterIncompatible
            /\ UNCHANGED <<newErr, stepErr>>
    /\ nLoad' = (nLoad + 1) % LoadMod
    /\ UNCHANGED <<nNew, outbounds, outboundName2Id, Final, matcher, epoch,
                   epochs, deferFuncs, hooks, bpfOpen, bound, nBind, linkVars, closeVars,
                   serveVars, ctxDone>>

\* the ParamMap updates of the two checksum policies, then
\* Lookup(EpochKey, &epoch); epoch++; Update(EpochKey, epoch)
ParamSteps == <<"DisableL4TxChecksumKey", "DisableL4RxChecksumKey", "EpochKey">>
NewParams(failAt) ==
    /\ pcNew = "params"
    /\ IF failAt = "none"
       THEN /\ epoch' = U32Inc(paramEpoch)
            /\ paramEpoch' = U32Inc(paramEpoch)
            /\ epochs' = Append(epochs, [read |-> paramEpoch,
                                         kept |-> U32Inc(paramEpoch)])
            /\ pcNew' = "rules"
            /\ UNCHANGED <<newErr, stepErr>>
       ELSE /\ pcNew' = "failed"
            /\ newErr' = <<"ParamMap.Update", failAt>>
            /\ stepErr' = failAt
            /\ UNCHANGED <<epoch, paramEpoch, epochs>>
    /\ UNCHANGED <<pinnedBad, nNew, outbounds, outboundName2Id, Final, matcher,
                   nLoad, deferFuncs, hooks, bpfOpen, bound, nBind, linkVars, closeVars, serveVars,
                   ctxDone>>

\* routing.Parse, the four optimizers in order, dialer.NewFromLink
RuleSteps == <<"routing.Parse", "RefineFunctionParamKeyOptimizer",
               "DatReaderOptimizer", "MergeAndSortRulesOptimizer",
               "DeduplicateParamsOptimizer", "dialer.NewFromLink">>
Finals == {"direct", "proxy"}
\* slip: the error of an optimizer is dropped and construction goes on
AfterRuleErrorDropped(step) ==
    IF step \in {"routing.Parse", "dialer.NewFromLink"} THEN "failed"
    ELSE "outbounds"
\* if err != nil { return nil, ... } after each step
AfterRuleError(step) == "failed"
NewRules(failAt, final) ==
    /\ pcNew = "rules"
    /\ IF failAt = "none"
       THEN /\ pcNew' = "outbounds"
            /\ Final' = final
            /\ UNCHANGED <<newErr, stepErr>>
       ELSE /\ pcNew' = AfterRuleError(failAt)
            /\ newErr' = IF AfterRuleError(failAt) = "failed" THEN <<failAt>>
                          ELSE newErr
            /\ stepErr' = failAt
            /\ Final' = IF AfterRuleError(failAt) = "failed" THEN Final
                         ELSE final
    /\ UNCHANGED <<paramEpoch, pinnedBad, nNew, outbounds, outboundName2Id,
                   matcher, epoch, epochs, nLoad, deferFuncs, hooks, bpfOpen, bound, nBind, linkVars,
                   closeVars, serveVars, ctxDone>>

\* 0xff
MaxOutbound == 255
Uint8(x) == x % 256
\* the outbound list of n groups; a group is its name
DeclaredOutbounds == <<0, 1>>     \* 0: consts.OutboundDirect.String(), 1: "proxy"
Declared(n) == [i \in 1..n |-> n - i]
OutboundLists ==
    {DeclaredOutbounds}
    \cup {Declared(n) : n \in 0..3}
    \cup {Declared(n) : n \in (MaxOutbound - 1)..(MaxOutbound + OverMax)}

\* slip: the limit is taken one too high
TooManyOutboundsOffByOne(n) == n > MaxOutbound + 1
\* len(outbounds) > 0xff
TooManyOutbounds(n) == n > MaxOutbound

\* for i, o := range outbounds { outboundName2Id[o.Name] = uint8(i) }
\* a later assignment to the same key replaces the earlier one
LastIndexOf(outs, n) ==
    LET I == {i \in DOMAIN outs : outs[i] = n}
    IN  CHOOSE i \in I : \A j \in I : j <= i
Name2Id(outs) == [n \in Range(outs) |-> Uint8(LastIndexOf(outs, n) - 1)]

NewOutbounds(outs) ==
    /\ pcNew = "outbounds"
    /\ outbounds' = outs
    /\ IF TooManyOutbounds(Len(outs))
       THEN /\ pcNew' = "failed"
            /\ newErr' = <<"too many outbounds">>
            /\ stepErr' = "too many outbounds"
            /\ UNCHANGED outboundName2Id
       ELSE /\ outboundName2Id' = Name2Id(outs)
            /\ pcNew' = "build"
            /\ UNCHANGED <<newErr, stepErr>>
    /\ UNCHANGED <<paramEpoch, pinnedBad, nNew, Final, matcher, epoch, epochs,
                   nLoad, deferFuncs, hooks, bpfOpen, bound, nBind, linkVars, closeVars, serveVars,
                   ctxDone>>

\* routing.ApplyMatcherBuilder, builder.Build, and the ControlPlane returned
BuildSteps == <<"ApplyMatcherBuilder", "RoutingMatcherBuilder.Build">>
NewBuild(failAt) ==
    /\ pcNew = "build"
    /\ IF failAt = "none"
       THEN /\ matcher' = "built"
            /\ deferFuncs' = <<BpfCloseFunc>>
            /\ pcNew' = "done"
            /\ UNCHANGED <<newErr, stepErr>>
       ELSE /\ pcNew' = "failed"
            /\ newErr' = <<failAt>>
            /\ stepErr' = failAt
            /\ UNCHANGED <<matcher, deferFuncs>>
    /\ UNCHANGED <<paramEpoch, pinnedBad, nNew, outbounds, outboundName2Id,
                   Final, epoch, epochs, nLoad, hooks, bpfOpen, bound, nBind, linkVars, closeVars,
                   serveVars, ctxDone>>

NoOutbounds == <<-1>>
NoControlPlane ==
    /\ newErr = Nil
    /\ outbounds = NoOutbounds
    /\ outboundName2Id = <<>>
    /\ Final = ""
    /\ matcher = "none"
    /\ epoch = U32Zero

\* the process ends and the program is started again, possibly a newer build
\* of it; what is pinned stays
NewRestart(bad) ==
    /\ pcNew \in {"done", "failed"}
    /\ nNew < MaxNew
    /\ nNew' = nNew + 1
    /\ pcNew' = "start"
    /\ pinnedBad' = bad
    /\ newErr' = Nil
    /\ outbounds' = NoOutbounds
    /\ outboundName2Id' = <<>>
    /\ Final' = ""
    /\ matcher' = "none"
    /\ epoch' = U32Zero
    /\ stepErr' = ""
    /\ nLoad' = 0
    /\ deferFuncs' = <<>>
    /\ bpfOpen' = FALSE
    /\ UNCHANGED <<paramEpoch, epochs, hooks, bound, nBind, linkVars, closeVars,
                   serveVars, ctxDone>>

\* -------------------------------------------------------------- lifecycle
NoLog == [accept |-> 0, read |-> 0, handleConn |-> 0, handlePkt |-> 0,
          noAddrPort |-> 0]

\* no BindLink call yet
NoBind == [link |-> NoLink, failAt |-> "-"]
\* a link with one global IPv4 address
OneAddr == <<[kind |-> "ip4", ll |-> FALSE, id |-> 1]>>

LifeInit ==
    /\ bound = {}
    /\ nBind = 0
    /\ ifindexIpMap = [l \in Links |-> <<>>]
    /\ lastBind = NoBind
    /\ pcClose = "idle"
    /\ closeI = 0
    /\ closeErr = Nil
    /\ closeRet = Nil
    /\ closeSnap = <<>>
    /\ closeBound = {}
    /\ invoked = <<>>
    /\ nClose = 0
    /\ lasPc = "idle"
    /\ lasRet = Nil
    /\ listener = "none"
    /\ lConn = "none"
    /\ paramPort = <<>>
    /\ ctxDone = FALSE
    /\ tcpLoop = "none"
    /\ udpLoop = "none"
    /\ tcpErr = ""
    /\ udpErr = ""
    /\ connTasks = <<>>
    /\ pktTasks = <<>>
    /\ bufs = <<>>
    /\ log = NoLog

\* a constructed ControlPlane
Constructed ==
    /\ deferFuncs = <<BpfCloseFunc>>
    /\ bpfOpen = TRUE
    /\ pcNew = "done"
    /\ newErr = Nil
    /\ paramEpoch = <<0, 1>>
    /\ pinnedBad = {}
    /\ nNew = 1
    /\ outbounds = DeclaredOutbounds
    /\ outboundName2Id = Name2Id(DeclaredOutbounds)
    /\ Final = "direct"
    /\ matcher = "built"
    /\ epoch = <<0, 1>>
    /\ epochs = <<[read |-> U32Zero, kept |-> <<0, 1>>]>>
    /\ stepErr = ""
    /\ nLoad = 1
    /\ LifeInit

\* the hooks a run that ended without Close left on a link
StaleHooks == {{}} \cup {LinkHooks(l) : l \in Links}

Init ==
    /\ Constructed
    /\ hooks \in StaleHooks
    /\ ipnets \in [Links -> {<<>>, OneAddr}]

CloseStep == \E ok \in BOOLEAN : CloseInvoke(ok)
TcpClosed == TcpAcceptErr(ErrClosedText)
UdpClosed == UdpReadErr(ErrClosedText)

\* the calls a caller makes, the ListenAndServe goroutine, and the ends of the
\* two loops
Next ==
    \/ \E l \in Links, s \in Range(BindSteps) \cup {"none"}, ok \in BOOLEAN :
          BindLink(l, s, ok)
    \/ CloseBegin
    \/ CloseStep
    \/ CloseReturn
    \/ \E ok \in BOOLEAN : LasListenTCP(ok)
    \/ \E ok \in BOOLEAN : LasListenUDP(ok)
    \/ \E p \in Ports, ok \in BOOLEAN : LasUpdatePort(p, ok)
    \/ LasServe
    \/ LasReturn
    \/ TcpAcceptErr(ErrOtherText)
    \/ TcpClosed
    \/ UdpReadErr(ErrOtherText)
    \/ UdpClosed

\* The lifecycle of a ControlPlane whose listeners receive no traffic.
Spec == Init /\ [][Next]_vars

\* ListenAndServe under traffic, with Close; no interface is bound.
ServeInit == Constructed /\ hooks = {} /\ ipnets = [l \in Links |-> OneAddr]

ServeNext ==
    \/ (nClose < MaxServeClose /\ CloseBegin)
    \/ CloseStep
    \/ CloseReturn
    \/ \E ok \in BOOLEAN : LasListenTCP(ok)
    \/ \E ok \in BOOLEAN : LasListenUDP(ok)
    \/ \E p \in Ports, ok \in BOOLEAN : LasUpdatePort(p, ok)
    \/ LasServe
    \/ LasReturn
    \/ TcpAccept
    \/ TcpAcceptErr(ErrOtherText)
    \/ TcpClosed
    \/ \E k \in 1..MaxItems, ok \in BOOLEAN : ConnReturn(k, ok)
    \/ \E d \in ServeDatagrams : UdpRead(d, PoolFirst)
    \/ UdpReadErr(ErrOtherText)
    \/ UdpClosed
    \/ \E k \in 1..MaxItems, ok \in BOOLEAN : PktDone(k, ok)

ServeSpec == ServeInit /\ [][ServeNext]_vars

\* A runnable goroutine is eventually scheduled: Close runs to its return,
\* ListenAndServe returns once the context is done, and a read on a closed
\* listener returns.
FairServeSpec ==
    /\ ServeSpec
    /\ WF_vars(CloseStep)
    /\ WF_vars(CloseReturn)
    /\ WF_vars(LasReturn)
    /\ WF_vars(TcpClosed)
    /\ WF_vars(UdpClosed)

\* ------------------------------------------------------------ construction
StoredEpochs == {U32Zero, <<0, Half - 1>>, <<Half - 1, Half - 2>>, U32Max}

\* the program is started against whatever an earlier run left pinned
NewInit ==
    /\ pcNew = "start"
    /\ nNew = 1
    /\ paramEpoch \in StoredEpochs
    /\ pinnedBad \in SUBSET PinnedMaps
    /\ epochs = <<>>
    /\ stepErr = ""
    /\ nLoad = 0
    /\ NoControlPlane
    /\ deferFuncs = <<>>
    /\ bpfOpen = FALSE
    /\ hooks = {}
    /\ ipnets = [l \in Links |-> OneAddr]
    /\ LifeInit

NewNext ==
    \/ \E ok \in BOOLEAN : NewRlimit(ok)
    \/ \E ok \in BOOLEAN : NewLoad(ok)
    \/ \E m \in PinnedMaps, named \in BOOLEAN, removed \in BOOLEAN :
          NewLoadIncompatible(m, named, removed)
    \/ \E s \in Range(ParamSteps) \cup {"none"} : NewParams(s)
    \/ \E s \in Range(RuleSteps) \cup {"none"}, f \in Finals : NewRules(s, f)
    \/ \E outs \in OutboundLists : NewOutbounds(outs)
    \/ \E s \in Range(BuildSteps) \cup {"none"} : NewBuild(s)
    \/ \E bad \in SUBSET PinnedMaps : NewRestart(bad)

SpecNew == NewInit /\ [][NewNext]_vars

\* ListenAndServe's own steps up to the start of the loops: none of them
\* waits for anything, so a call that has begun goes on.
LasSetup ==
    \/ \E ok \in BOOLEAN : LasListenTCP(ok)
    \/ \E ok \in BOOLEAN : LasListenUDP(ok)
    \/ \E p \in Ports, ok \in BOOLEAN : LasUpdatePort(p, ok)
    \/ LasServe
FairRaceSpec == FairServeSpec /\ WF_vars(LasSetup)

\* BindLink alone, on links with every address list of up to MaxAddrs
\* addresses.
BindInit ==
    /\ Constructed
    /\ hooks \in StaleHooks
    /\ ipnets \in [Links -> AddrLists]
BindNext ==
    \E l \in Links, s \in Range(BindSteps) \cup {"none"}, ok \in BOOLEAN :
        BindLink(l, s, ok)
BindSpec == BindInit /\ [][BindNext]_vars

\* The datagram loop and its handlers, with every datagram and every buffer
\* the pool may hand out; no stream traffic and no Close.
PktNext ==
    \/ \E ok \in BOOLEAN : LasListenTCP(ok)
    \/ \E ok \in BOOLEAN : LasListenUDP(ok)
    \/ \E p \in Ports, ok \in BOOLEAN : LasUpdatePort(p, ok)
    \/ LasServe
    \/ LasReturn
    \/ TcpClosed
    \/ \E d \in Datagrams : \E b \in 1..MaxItems : UdpRead(d, b)
    \/ UdpReadErr(ErrOtherText)
    \/ UdpClosed
    \/ \E k \in 1..MaxItems, ok \in BOOLEAN : PktReturn(k, ok)
    \/ \E k \in 1..MaxItems : PktPut(k)

PktSpec == ServeInit /\ [][PktNext]_vars

\* NewControlPlane is one sequential function: a call that has a next step
\* takes it.  When the program is started again is up to its user.
NewStep ==
    \/ \E ok \in BOOLEAN : NewRlimit(ok)
    \/ \E ok \in BOOLEAN : NewLoad(ok)
    \/ \E m \in PinnedMaps, named \in BOOLEAN, removed \in BOOLEAN :
          NewLoadIncompatible(m, named, removed)
    \/ \E s \in Range(ParamSteps) \cup {"none"} : NewParams(s)
    \/ \E s \in Range(RuleSteps) \cup {"none"}, f \in Finals : NewRules(s, f)
    \/ \E outs \in OutboundLists : NewOutbounds(outs)
    \/ \E s \in Range(BuildSteps) \cup {"none"} : NewBuild(s)
FairSpecNew == SpecNew /\ WF_vars(NewStep)

\* ================================================================== claims
Failed(r) == r.e # Nil
NotSep(x) == x # Sep

\* C1: the teardown calls a Close makes are the actions that were registered
\* when it began, in reverse order of registration (last registered first),
\* and when it returns it has made each of them exactly once.
C1_CloseReverseOrder ==
    pcClose \in {"loop", "done"} =>
        /\ \A k \in 1..Len(invoked) :
              /\ invoked[k].i = Len(closeSnap) - k + 1
              /\ invoked[k].f = closeSnap[Len(closeSnap) - k + 1]
        /\ pcClose = "done" => Len(invoked) = Len(closeSnap)

C1_Witness ==
    /\ pcClose = "done"
    /\ bound # {}
    /\ CancelFunc \in Range(closeSnap)
    /\ Len(closeSnap) >= 5

\* C2: however many teardown actions fail, a Close that returns has invoked
\* every action registered when it began: as many calls as registrations.
C2_CloseInvokesAll ==
    pcClose = "done" =>
        /\ Len(invoked) = Len(closeSnap)
        /\ \A i \in 1..Len(closeSnap) : \E k \in 1..Len(invoked) : invoked[k].i = i

C2_Witness ==
    /\ pcClose = "done"
    /\ Len(invoked) >= 4
    /\ Failed(invoked[1])
    /\ Failed(invoked[2])
    /\ ~Failed(invoked[3])

\* C3: Close returns nil exactly when no teardown action failed; otherwise the
\* message of the returned error holds every failure, in the order in which
\* the failures occurred.
C3_CloseCombinedError ==
    pcClose = "done" =>
        LET F == SelectSeq(invoked, Failed)
        IN  /\ closeRet = Nil <=> F = <<>>
            /\ SelectSeq(closeRet, NotSep) = [k \in 1..Len(F) |-> F[k].i]

C3_Witness ==
    /\ pcClose = "done"
    /\ Len(SelectSeq(invoked, Failed)) >= 3

\* C4: after a BindLink that succeeded and a Close, a release has been
\* attempted for the qdisc, the ingress filter and the egress filter of the
\* link.
C4_AllHooksReleased ==
    pcClose = "done" =>
        \A l \in closeBound : \A h \in Hooks :
            \E k \in 1..Len(invoked) : invoked[k].f.link = l /\ invoked[k].f.hook = h

Serving(loop) == loop \notin {"none", "stopped"}
AllStopped ==
    /\ lasPc = "returned"
    /\ tcpLoop = "stopped"
    /\ udpLoop = "stopped"

\* C5: when Close runs with the cancel action of a serving ListenAndServe in
\* its list, ListenAndServe eventually returns nil and both loops eventually
\* stop; and whenever ListenAndServe returns from serving, both listeners are
\* closed.
C5_CloseStopsServing ==
    /\ (pcClose = "loop" /\ CancelFunc \in Range(closeSnap))
          ~> (AllStopped /\ lasRet = Nil)
    /\ [][(lasPc = "wait" /\ lasPc' = "returned")
             => (listener' = "closed" /\ lConn' = "closed")]_vars

C5_Witness ==
    /\ pcClose = "loop"
    /\ \E k \in 1..Len(invoked) : invoked[k].f = CancelFunc
    /\ lasPc = "wait"
    /\ tcpLoop = "accept"
    /\ udpLoop = "read"
    /\ tcpErr = ""
    /\ udpErr = ""

\* C6: a loop stops only in a step in which its listener returned an error,
\* and that step cancels the context; once either loop has stopped,
\* ListenAndServe eventually returns and the other loop eventually stops.
C6_ListenerErrorStopsAll ==
    /\ [][(tcpLoop # "stopped" /\ tcpLoop' = "stopped")
             => (tcpErr' # "" /\ tcpErr = "" /\ ctxDone')]_vars
    /\ [][(udpLoop # "stopped" /\ udpLoop' = "stopped")
             => (udpErr' # "" /\ udpErr = "" /\ ctxDone')]_vars
    /\ (tcpLoop = "stopped" \/ udpLoop = "stopped") ~> AllStopped

C6_Witness ==
    /\ AllStopped
    /\ udpErr = ErrOtherText
    /\ tcpErr = ErrClosedText
    /\ nClose = 0
    /\ pcClose = "idle"
    /\ log.noAddrPort > 0

\* C7: a loop that is serving is always ready for the next item, whatever the
\* handlers started so far are doing (up to the number of items explored), and
\* a handler's return, with or without an error, changes nothing but the
\* handler's own task and the log.
C7_HandlersDoNotBlockLoops ==
    /\ []((Serving(tcpLoop) /\ listener = "open" /\ Items < MaxItems)
             => ENABLED TcpAccept)
    /\ []((Serving(udpLoop) /\ lConn = "open" /\ Items < MaxItems)
             => ENABLED (\E d \in ServeDatagrams :
                          ParseAddrHdr(d)[1] /\ UdpRead(d, PoolFirst)))
    /\ [][(Len(connTasks') = Len(connTasks) /\ Len(pktTasks') = Len(pktTasks)
           /\ <<connTasks, pktTasks>>' # <<connTasks, pktTasks>>)
             => UNCHANGED <<tcpLoop, udpLoop, ctxDone, listener, lConn, lasPc,
                            deferFuncs, tcpErr, udpErr>>]_vars

C7_Witness ==
    /\ Len(connTasks) = 2
    /\ connTasks[1] = "running"
    /\ log.handleConn > 0
    /\ Len(pktTasks) = 1
    /\ pktTasks[1].st = "running"
    /\ tcpLoop = "accept"
    /\ udpLoop = "read"

\* C8: the step that logs a datagram whose header does not parse starts no
\* handler, leaves the context uncancelled if it was, and leaves the datagram
\* loop at its read.
C8_BadHeaderDropped ==
    [][log'.noAddrPort # log.noAddrPort
          => /\ pktTasks' = pktTasks
             /\ ctxDone' = ctxDone
             /\ udpLoop = "read"
             /\ udpLoop' = "read"
             /\ udpErr' = udpErr
             /\ lConn' = lConn]_vars

C8_Witness ==
    /\ log.noAddrPort > 0
    /\ ~ctxDone
    /\ udpLoop = "read"
    /\ Len(pktTasks) > 0

TooMany == <<"too many outbounds">>

\* C9: construction fails with "too many outbounds" exactly when more than 255
\* outbounds are declared (256 fail, 255 pass); when it passes, the table maps
\* exactly the declared names, each to an id in 0..255 that is the index at
\* which the name is declared, and no two names to the same id.
C9_OutboundIds ==
    outbounds # NoOutbounds =>
        IF Len(outbounds) > 255
        THEN pcNew = "failed" /\ newErr = TooMany
        ELSE /\ newErr # TooMany
             /\ DOMAIN outboundName2Id = Range(outbounds)
             /\ \A n \in Range(outbounds) :
                   /\ outboundName2Id[n] \in 0..255
                   /\ outbounds[outboundName2Id[n] + 1] = n
             /\ \A n \in Range(outbounds) : \A m \in Range(outbounds) :
                   outboundName2Id[n] = outboundName2Id[m] => n = m

C9_Witness ==
    /\ pcNew = "done"
    /\ Len(outbounds) = 255

\* C10: every construction keeps and writes back an epoch above the stored
\* value it read, and above the epoch of every earlier construction.
C10_EpochIncreases ==
    \A k \in 1..Len(epochs) :
        /\ U32Less(epochs[k].read, epochs[k].kept)
        /\ \A j \in 1..(k - 1) : U32Less(epochs[j].kept, epochs[k].kept)

\* ---- C11
PolicySteps ==
    {"routing.Parse", "RefineFunctionParamKeyOptimizer", "DatReaderOptimizer",
     "MergeAndSortRulesOptimizer", "DeduplicateParamsOptimizer",
     "ApplyMatcherBuilder", "RoutingMatcherBuilder.Build"}

\* C11: when routing.Parse, one of the four optimizers, ApplyMatcherBuilder or
\* Build has returned an error, NewControlPlane has failed with that error and
\* there is no ControlPlane; a ControlPlane exists only when no step of its
\* construction returned an error.
C11_NoBrokenPolicy ==
    /\ stepErr \in PolicySteps =>
          /\ pcNew = "failed"
          /\ newErr = <<stepErr>>
          /\ deferFuncs = <<>>
          /\ matcher = "none"
    /\ pcNew = "done" =>
          /\ stepErr = ""
          /\ newErr = Nil
          /\ matcher = "built"
          /\ deferFuncs = <<BpfCloseFunc>>

\* an optimizer failed in the third construction, after the rules parsed
C11_Witness ==
    /\ nNew = MaxNew
    /\ pcNew = "failed"
    /\ stepErr = "DatReaderOptimizer"
    /\ newErr = <<"DatReaderOptimizer">>

\* ---- C12
\* C12: no step of BindLink, ListenAndServe, Close or the two loops changes
\* the matcher data, the outbound groups, the name-to-id table, Final or the
\* epoch of a constructed ControlPlane.
C12_PolicyWrittenOnce ==
    [][UNCHANGED <<matcher, outbounds, outboundName2Id, Final, epoch>>]_vars

\* BindLink, ListenAndServe and two Close calls have all run
C12_Witness ==
    /\ nBind >= 1
    /\ nClose = MaxClose
    /\ lasPc = "returned"
    /\ lasRet = Nil
    /\ matcher = "built"
    /\ epoch = <<0, 1>>

\* ---- C13
\* C13: loading the kernel objects ends: a construction that is loading gets
\* past the load, to the next step or to a fatal error, also when every
\* attempt reports an incompatible pinned map.
C13_LoadTerminates == (pcNew = "load") ~> (pcNew # "load")

\* ---- C14
\* the bytes of t's datagram from the data offset its header parsed to, on
HeldBytes(t) == [i \in 1..(t.dg.n - t.off) |-> Bytes(t.dg)[t.off + i]]

\* C14: from its dispatch to its return, whatever the loop reads meanwhile, a
\* handler's buffer holds exactly the n-d bytes of its datagram that follow
\* the header and is held by no other handler; the buffer goes back to the
\* pool once, and not before the handler has returned.
C14_PayloadPrivateCopy ==
    \A k \in 1..Len(pktTasks) :
        LET t == pktTasks[k]
        IN  /\ t.st = "running" => bufs[t.buf].data = HeldBytes(t)
            /\ t.st # "done" =>
                  /\ t.put = 0
                  /\ ~bufs[t.buf].free
                  /\ \A j \in 1..Len(pktTasks) :
                        (j # k /\ pktTasks[j].st # "done")
                            => pktTasks[j].buf # t.buf
            /\ t.st = "done" => t.put = 1

\* the first handler is done and its buffer serves the third datagram, a
\* longer one, while the second handler still runs
C14_Witness ==
    /\ Len(pktTasks) = 3
    /\ pktTasks[1].st = "done"
    /\ pktTasks[2].st = "running"
    /\ pktTasks[3].st = "running"
    /\ pktTasks[3].buf = pktTasks[1].buf
    /\ pktTasks[1].dg.n < pktTasks[3].dg.n
    /\ pktTasks[2].dg.fam # pktTasks[3].dg.fam

\* ---- C15
\* the positions of list that hold an address of kind k that is not link-local
Global(list, k) == {i \in 1..Len(list) : list[i].kind = k /\ ~list[i].ll}
FirstOf(S) == CHOOSE i \in S : \A j \in S : i <= j
\* the 128-bit form of an address: an IPv4 address is IPv4-mapped
Form128(a) == <<IF a.kind = "ip4" THEN "::ffff:" ELSE "", a.id>>
StoredFor(has, ip, list, k) ==
    /\ has <=> Global(list, k) # {}
    /\ has => ip = Form128(list[FirstOf(Global(list, k))])
    /\ ~has => ip = ZeroIp

\* C15: a record written for a link holds, per family, the flag that tells
\* whether the link's address list has an address of that family that is not
\* link-local and, when it has, the first such address of the list in 128-bit
\* form; a call that gets as far as the map update writes the record; and
\* a call on a link with an empty address list fails and writes none.
C15_LinkIpRecord ==
    \A l \in Links :
        /\ ifindexIpMap[l] # <<>> =>
              /\ Len(ipnets[l]) > 0
              /\ LET rec == ifindexIpMap[l][1]
                 IN  /\ StoredFor(rec.HasIp4, rec.Ip4, ipnets[l], "ip4")
                     /\ StoredFor(rec.HasIp6, rec.Ip6, ipnets[l], "ip6")
        /\ (lastBind.link = l /\ Passed("IfindexIpMap", lastBind.failAt))
              => ifindexIpMap[l] # <<>>
        /\ (lastBind.link = l /\ Len(ipnets[l]) = 0) =>
              /\ lastBind.failAt \in {"LinkByName", "AddrList", "NoIp"}
              /\ ifindexIpMap[l] = <<>>
              /\ l \notin bound

\* a link-local IPv4 address, then two global ones: the second of the list is
\* stored, and no IPv6 address
C15_Witness ==
    \E l \in Links :
        /\ Len(ipnets[l]) = 3
        /\ ipnets[l][1] = [kind |-> "ip4", ll |-> TRUE, id |-> 1]
        /\ ipnets[l][2] = [kind |-> "ip4", ll |-> FALSE, id |-> 2]
        /\ ipnets[l][3] = [kind |-> "ip4", ll |-> FALSE, id |-> 1]
        /\ ifindexIpMap[l] # <<>>
        /\ ifindexIpMap[l][1].Ip4 = <<"::ffff:", 2>>
        /\ ~ifindexIpMap[l][1].HasIp6

\* ---- C16
\* C16: the step in which a loop sees an error stops that loop, and writes
\* one line to the error log unless the error is the closed-connection one,
\* for which it writes none.
C16_ClosedErrorNotLogged ==
    [][/\ tcpErr' # tcpErr =>
            /\ tcpLoop' = "stopped"
            /\ log'.accept =
                 log.accept + (IF tcpErr' = ErrClosedText THEN 0 ELSE 1)
            /\ log'.read = log.read
       /\ udpErr' # udpErr =>
            /\ udpLoop' = "stopped"
            /\ log'.read =
                 log.read + (IF udpErr' = ErrClosedText THEN 0 ELSE 1)
            /\ log'.accept = log.accept]_vars

\* the stream loop ended by a genuine error, logged; the datagram loop by the
\* shutdown that followed, not logged
C16_Witness ==
    /\ tcpErr = ErrOtherText
    /\ udpErr = ErrClosedText
    /\ log.accept = 1
    /\ log.read = 0
    /\ tcpLoop = "stopped"
    /\ udpLoop = "stopped"

\* ---- C17
\* the releases of what a call that fails at failAt had acquired, in
\* acquisition order
AcquiredReleases(l, failAt) ==
    CASE failAt = "FilterAddIngress" -> <<QdiscDelFunc(l)>>
      [] failAt = "FilterAddEgress" -> <<QdiscDelFunc(l), IngressDelFunc(l)>>
      [] OTHER -> <<>>
BindFailed == lastBind.failAt \notin {"none", "-"}

\* C17: a BindLink call that fails leaves the teardown list as it was,
\* followed by the releases of exactly what the call had acquired before the
\* failing step, in acquisition order, each of something that is installed;
\* and a Close call that ends after such a call has invoked each of them.
C17_PartialBindReleased ==
    /\ [][(nBind' # nBind /\ lastBind'.failAt # "none") =>
            LET rel == AcquiredReleases(lastBind'.link, lastBind'.failAt)
            IN  /\ deferFuncs' = deferFuncs \o rel
                /\ \A k \in 1..Len(rel) :
                      <<rel[k].link, rel[k].hook>> \in hooks']_vars
    /\ [][(pcClose = "loop" /\ pcClose' = "done" /\ BindFailed) =>
            LET rel == AcquiredReleases(lastBind.link, lastBind.failAt)
            IN  \A k \in 1..Len(rel) :
                    \E j \in 1..Len(invoked) : invoked[j].f = rel[k]]_vars

\* the egress filter could not be attached; the Close that followed deleted
\* the ingress filter and the qdisc
C17_Witness ==
    /\ lastBind.failAt = "FilterAddEgress"
    /\ pcClose = "done"
    /\ \E j \in 1..Len(invoked) :
          invoked[j].f = QdiscDelFunc(lastBind.link) /\ invoked[j].e = Nil
    /\ \E j \in 1..Len(invoked) :
          invoked[j].f = IngressDelFunc(lastBind.link) /\ invoked[j].e = Nil
    /\ hooks = {}

\* ---- C18
\* C18: whenever a Close call is in its loop while a ListenAndServe call is
\* under way on another task, be it before, at or after the registration of
\* the cancel action, ListenAndServe eventually returns.
C18_CloseEndsConcurrentServe ==
    (pcClose = "loop" /\ lasPc \notin {"idle", "returned"})
        ~> (lasPc = "returned")

\* ---- C19
IsPrefix(p, q) == Len(p) <= Len(q) /\ SubSeq(q, 1, Len(p)) = p
Reverse(q) == [k \in 1..Len(q) |-> q[Len(q) + 1 - k]]

\* C19: no step of Close changes the teardown list; a Close call that follows
\* another starts from a list that begins with the whole list of the earlier
\* call; and every call, when it returns, has invoked the actions of its
\* list, all of them, last registered first.
C19_CloseKeepsList ==
    /\ [][closeVars' # closeVars => deferFuncs' = deferFuncs]_vars
    /\ [][(pcClose = "done" /\ pcClose' = "loop")
             => IsPrefix(closeSnap, closeSnap')]_vars
    /\ [][(pcClose = "loop" /\ pcClose' = "done")
             => [k \in 1..Len(invoked) |-> invoked[k].f] = Reverse(closeSnap)
      ]_vars

\* the second Close has run the five actions the first one ran: the cancel
\* closure, the three of BindLink and bpf.Close
C19_Witness ==
    /\ nClose = 2
    /\ pcClose = "done"
    /\ Len(closeSnap) = 5
    /\ Len(invoked) = 5
    /\ deferFuncs = closeSnap
    /\ invoked[1].f = CancelFunc
    /\ invoked[5].f = BpfCloseFunc

\* ---- C20
SetupErrors == {<<"listenTCP">>, <<"listenUDP">>, <<"ParamMap.Update">>}

\* C20: no loop runs before ListenAndServe's setup is through; a call that
\* returned an error returned the error of a setup step, started no loop,
\* registered no teardown action and left no listener open; a call that
\* returned after it had started the loops returned nil.
C20_ServeErrorOnlyFromSetup ==
    /\ lasPc \in {"idle", "listenUDP", "update", "register"} =>
          tcpLoop = "none" /\ udpLoop = "none"
    /\ lasPc = "returned" =>
          IF lasRet # Nil
          THEN /\ lasRet \in SetupErrors
               /\ tcpLoop = "none"
               /\ udpLoop = "none"
               /\ \A k \in 1..Len(deferFuncs) : deferFuncs[k] # CancelFunc
               /\ listener # "open"
               /\ lConn # "open"
          ELSE /\ tcpLoop # "none"
               /\ udpLoop # "none"

\* a genuine Accept error, logged, ended the serving, and no Close was called:
\* ListenAndServe returned nil
C20_Witness ==
    /\ lasPc = "returned"
    /\ lasRet = Nil
    /\ tcpErr = ErrOtherText
    /\ log.accept = 1
    /\ nClose = 0
    /\ pcClose = "idle"

====
